---- MODULE Spec2Model ----
(***************************************************************************)
(* Model of pedidos2.py: the receipt renderer (ThermalPrinter._build_text),*)
(* the printer dispatch (ThermalPrinter.print_receipt with its network and *)
(* ESC/POS USB transports) and the sale cart of PDVApp.                    *)
(*                                                                         *)
(* Text is modelled as sequences of one-character strings, so that widths, *)
(* slices and padding are computed as Python computes them.  Currency      *)
(* amounts are exact decimal numbers of cents, held as sequences of decimal*)
(* digits (most significant first, <<>> is zero), so that amounts of any   *)
(* magnitude can be formatted; binary floating-point rounding, negative    *)
(* amounts, inf and nan are not modelled.                                  *)
(***************************************************************************)
EXTENDS Integers, Sequences, FiniteSets, TLC

VARIABLES settings, ESC_POS_AVAILABLE, cart, lb_cart, total_var, sales,
          finalized, call

vars == <<settings, ESC_POS_AVAILABLE, cart, lb_cart, total_var, sales,
          finalized, call>>

(***************************************************************************)
(* Bounds of the model.                                                    *)
(***************************************************************************)
MaxCart == 2
MaxSales == 1
MaxFailAt == 9

(***************************************************************************)
(* Python string and number primitives.                                    *)
(***************************************************************************)
Min(a, b) == IF a < b THEN a ELSE b
Max(a, b) == IF a > b THEN a ELSE b

\* c * n for a one-character string c: the empty string when n <= 0.
Rep(c, n) == [i \in 1..Max(n, 0) |-> c]

\* s[:k], with Python's meaning of a negative k (counted from the end).
SliceTo(s, k) ==
    IF k >= 0 THEN SubSeq(s, 1, Min(k, Len(s)))
    ELSE SubSeq(s, 1, Max(Len(s) + k, 0))

\* str.center(width) with the space fill character (CPython's pad()).
Center(s, width) ==
    IF Len(s) >= width THEN s
    ELSE LET marg == width - Len(s)
             left == (marg \div 2)
                     + (IF marg % 2 = 1 /\ width % 2 = 1 THEN 1 ELSE 0)
         IN  Rep(" ", left) \o s \o Rep(" ", marg - left)

DigitChar(d) == <<"0", "1", "2", "3", "4", "5", "6", "7", "8", "9">>[d + 1]

Reverse(s) == [i \in 1..Len(s) |-> s[Len(s) + 1 - i]]

\* The decimal digits of a natural number, least significant first.
RECURSIVE NatLE(_)
NatLE(n) == IF n = 0 THEN <<>> ELSE <<n % 10>> \o NatLE(n \div 10)

\* f"{n}" for an int n >= 0.
IntStr(n) ==
    IF n = 0 THEN <<"0">>
    ELSE LET ds == Reverse(NatLE(n)) IN [i \in 1..Len(ds) |-> DigitChar(ds[i])]

\* Sum of two amounts (digit sequences, least significant first) and a carry.
RECURSIVE AddLE(_, _, _)
AddLE(a, b, c) ==
    IF a = <<>> /\ b = <<>> THEN NatLE(c)
    ELSE LET x == IF a = <<>> THEN 0 ELSE Head(a)
             y == IF b = <<>> THEN 0 ELSE Head(b)
             s == x + y + c
         IN  <<s % 10>> \o AddLE(IF a = <<>> THEN a ELSE Tail(a),
                                 IF b = <<>> THEN b ELSE Tail(b), s \div 10)

\* a + b on amounts.
Add(a, b) == Reverse(AddLE(Reverse(a), Reverse(b), 0))

RECURSIVE MulLE(_, _, _)
MulLE(a, n, c) ==
    IF a = <<>> THEN NatLE(c)
    ELSE LET s == Head(a) * n + c
         IN  <<s % 10>> \o MulLE(Tail(a), n, s \div 10)

\* qty * price: an amount times a natural number.
Mul(n, a) == IF n = 0 THEN <<>> ELSE Reverse(MulLE(Reverse(a), n, 0))

\* sum([p for _,_,p in items])
RECURSIVE SumTotals(_)
SumTotals(items) ==
    IF items = <<>> THEN <<>> ELSE Add(Head(items).p, SumTotals(Tail(items)))

\* f"{p:.2f}" for an amount p of cents: at least one integer digit, a point,
\* exactly two decimals.
Format2(p) ==
    LET ds == IF Len(p) < 3 THEN [i \in 1..(3 - Len(p)) |-> 0] \o p ELSE p
        n  == Len(ds)
    IN  [i \in 1..(n - 2) |-> DigitChar(ds[i])] \o <<".">>
        \o <<DigitChar(ds[n - 1]), DigitChar(ds[n])>>

\* str.encode('utf-8'): one byte per ASCII character, two for the accented
\* letter of the alphabet used here.
Utf8Char(c) == IF c = "ã" THEN <<"\\xc3", "\\xa3">> ELSE <<c>>

\* (encoded half by half, to keep the evaluation shallow)
RECURSIVE Utf8(_)
Utf8(s) ==
    IF Len(s) = 0 THEN <<>>
    ELSE IF Len(s) = 1 THEN Utf8Char(s[1])
    ELSE LET h == Len(s) \div 2
         IN  Utf8(SubSeq(s, 1, h)) \o Utf8(SubSeq(s, h + 1, Len(s)))

\* '\n'.join(lines)
RECURSIVE Join(_)
Join(lines) ==
    IF lines = <<>> THEN <<>>
    ELSE IF Len(lines) = 1 THEN Head(lines)
    ELSE Head(lines) \o <<"\n">> \o Join(Tail(lines))

(***************************************************************************)
(* ThermalPrinter._build_text                                              *)
(***************************************************************************)
Separator == Rep("-", 32)

\* _build_text with the cut one column too long (no column kept free).
item_left_no_gap(it) ==
    LET line       == IntStr(it.q) \o <<"x", " ">> \o it.n
        price_line == Format2(it.p)
    IN  IF Len(line) + Len(price_line) > 32
        THEN SliceTo(line, 32 - Len(price_line))
        ELSE line

\* The part of an item row left of the amount, f"{q}x {n}", cut when it does
\* not fit beside the amount.
item_left(it) ==
    LET line       == IntStr(it.q) \o <<"x", " ">> \o it.n
        price_line == Format2(it.p)
    IN  IF Len(line) + Len(price_line) > 32
        THEN SliceTo(line, 32 - Len(price_line) - 1)
        ELSE line

\* One row of the item loop.
item_row(it) ==
    LET line       == item_left(it)
        price_line == Format2(it.p)
    IN  line \o Rep(" ", 32 - Len(line) - Len(price_line)) \o price_line

total_row(total) == <<"T", "O", "T", "A", "L">> \o Rep(" ", 27) \o Format2(total)

payment_row(payment) ==
    <<"P", "a", "g", "a", "m", "e", "n", "t", "o", ":", " ">> \o payment

header_rows(store) ==
    <<Center(store.name, 32)>>
    \o (IF store.address # <<>> THEN <<Center(store.address, 32)>> ELSE <<>>)
    \o (IF store.phone # <<>>
        THEN <<Center(<<"T", "e", "l", ":", " ">> \o store.phone, 32)>>
        ELSE <<>>)

\* The list `lines` of _build_text, before it is joined.
build_lines(store, items, total, payment) ==
    header_rows(store)
    \o <<Separator>>
    \o [i \in 1..Len(items) |-> item_row(items[i])]
    \o <<Separator>>
    \o <<total_row(total)>>
    \o <<payment_row(payment)>>
    \o <<Separator>>
    \o <<<<"O", "b", "r", "i", "g", "a", "d", "o", "!">>>>
    \o <<<<"\n">>>>

build_text(store, items, total, payment) ==
    Utf8(Join(build_lines(store, items, total, payment)))

(***************************************************************************)
(* Configuration: the settings table and Database.get_setting.             *)
(* printer_mode and printer_ip are opaque strings (only compared or passed *)
(* on); the values that are parsed or laid out are character sequences.    *)
(***************************************************************************)
get_setting(k, default) == IF k \in DOMAIN settings THEN settings[k] ELSE default

IsDigit(c) == c \in {"0", "1", "2", "3", "4", "5", "6", "7", "8", "9"}
IsHexDigit(c) == IsDigit(c) \/ c \in {"a", "b", "c", "d", "e", "f"}

DigitVal(c) ==
    CASE c = "0" -> 0 [] c = "1" -> 1 [] c = "2" -> 2 [] c = "3" -> 3
      [] c = "4" -> 4 [] c = "5" -> 5 [] c = "6" -> 6 [] c = "7" -> 7
      [] c = "8" -> 8 [] c = "9" -> 9 [] c = "a" -> 10 [] c = "b" -> 11
      [] c = "c" -> 12 [] c = "d" -> 13 [] c = "e" -> 14 [] c = "f" -> 15

RECURSIVE PosVal(_, _)
PosVal(s, base) ==
    IF s = <<>> THEN 0
    ELSE PosVal(SubSeq(s, 1, Len(s) - 1), base) * base + DigitVal(s[Len(s)])

\* int(s): a non-empty run of decimal digits, else ValueError.  (Surrounding
\* blanks, a sign and digit-group underscores are outside the alphabet used.)
ParseInt(s) ==
    IF s # <<>> /\ \A i \in 1..Len(s) : IsDigit(s[i])
    THEN [ok |-> TRUE, val |-> PosVal(s, 10)]
    ELSE [ok |-> FALSE, val |-> 0]

\* int(s, 16): an optional 0x prefix, then a non-empty run of hex digits.
ParseHex(s) ==
    LET body == IF Len(s) >= 2 /\ s[1] = "0" /\ s[2] = "x"
                THEN SubSeq(s, 3, Len(s)) ELSE s
    IN  IF body # <<>> /\ \A i \in 1..Len(body) : IsHexDigit(body[i])
        THEN [ok |-> TRUE, val |-> PosVal(body, 16)]
        ELSE [ok |-> FALSE, val |-> 0]

(***************************************************************************)
(* Transports.  A call is described by the device operations it attempted, *)
(* in order; the environment fails the failAt-th one (0: none fails).      *)
(***************************************************************************)
Ev(op, ok, txt, nums, host) ==
    [op |-> op, ok |-> ok, txt |-> txt, nums |-> nums, host |-> host]

\* _print_network without the with-block: close() only after a full send.
print_network_no_with(ip, port, data_bytes, failAt) ==
    LET enter == <<Ev("_print_network", TRUE, <<>>, <<port>>, ip)>>
        sock  == Ev("socket", failAt # 1, <<>>, <<>>, "")
        tmo   == Ev("settimeout", failAt # 2, <<>>, <<5>>, "")
        conOk == failAt # 3 /\ port \in 0..65535
        con   == Ev("connect", conOk, <<>>, <<port>>, ip)
        snd   == Ev("sendall", failAt # 4, data_bytes, <<>>, "")
        close == Ev("close", TRUE, <<>>, <<>>, "")
    IN  IF ~sock.ok THEN [result |-> "OSError", events |-> enter \o <<sock>>]
        ELSE IF ~tmo.ok
             THEN [result |-> "OSError", events |-> enter \o <<sock, tmo>>]
        ELSE IF ~con.ok
             THEN [result |-> IF port \in 0..65535 THEN "OSError"
                              ELSE "OverflowError",
                   events |-> enter \o <<sock, tmo, con>>]
        ELSE IF ~snd.ok
             THEN [result |-> "OSError",
                   events |-> enter \o <<sock, tmo, con, snd>>]
        ELSE [result |-> "True",
              events |-> enter \o <<sock, tmo, con, snd, close>>]

\* ThermalPrinter._print_network: the with-block closes the socket on every
\* exit once the socket exists; the except clause re-raises.
print_network(ip, port, data_bytes, failAt) ==
    LET enter == <<Ev("_print_network", TRUE, <<>>, <<port>>, ip)>>
        sock  == Ev("socket", failAt # 1, <<>>, <<>>, "")
        tmo   == Ev("settimeout", failAt # 2, <<>>, <<5>>, "")
        conOk == failAt # 3 /\ port \in 0..65535
        con   == Ev("connect", conOk, <<>>, <<port>>, ip)
        snd   == Ev("sendall", failAt # 4, data_bytes, <<>>, "")
        close == Ev("close", TRUE, <<>>, <<>>, "")
    IN  IF ~sock.ok THEN [result |-> "OSError", events |-> enter \o <<sock>>]
        ELSE IF ~tmo.ok
             THEN [result |-> "OSError", events |-> enter \o <<sock, tmo, close>>]
        ELSE IF ~con.ok
             THEN [result |-> IF port \in 0..65535 THEN "OSError"
                              ELSE "OverflowError",
                   events |-> enter \o <<sock, tmo, con, close>>]
        ELSE IF ~snd.ok
             THEN [result |-> "OSError",
                   events |-> enter \o <<sock, tmo, con, snd, close>>]
        ELSE [result |-> "True",
              events |-> enter \o <<sock, tmo, con, snd, close>>]

\* _print_escpos_usb walking the cart lines last to first.
usb_texts_reversed(store, items, total, payment) ==
    <<store.name \o <<"\n">>>>
    \o <<Separator \o <<"\n">>>>
    \o [i \in 1..Len(items) |->
          LET it == items[Len(items) + 1 - i]
          IN  IntStr(it.q) \o <<"x", " ">> \o it.n \o <<" ", "-", " ">>
              \o Format2(it.p) \o <<"\n">>]
    \o <<Separator \o <<"\n">>>>
    \o <<<<"T", "O", "T", "A", "L", ":", " ">> \o Format2(total) \o <<"\n">>>>
    \o <<<<"P", "a", "g", "a", "m", "e", "n", "t", "o", ":", " ">> \o payment
         \o <<"\n">>>>

\* The arguments of the p.text(...) calls of _print_escpos_usb, in order.
usb_texts(store, items, total, payment) ==
    <<store.name \o <<"\n">>>>
    \o <<Separator \o <<"\n">>>>
    \o [i \in 1..Len(items) |->
          IntStr(items[i].q) \o <<"x", " ">> \o items[i].n \o <<" ", "-", " ">>
          \o Format2(items[i].p) \o <<"\n">>]
    \o <<Separator \o <<"\n">>>>
    \o <<<<"T", "O", "T", "A", "L", ":", " ">> \o Format2(total) \o <<"\n">>>>
    \o <<payment_row(payment) \o <<"\n">>>>

\* ThermalPrinter._print_escpos_usb: Usb(...), the text commands, cut().  The
\* function holds no close(); `gc` says whether the runtime finalises the
\* device object (closing it) when the function returns normally.
print_escpos_usb(vendor, product, store, items, total, payment, failAt, gc) ==
    LET enter == <<Ev("_print_escpos_usb", TRUE, <<>>, <<vendor, product>>, "")>>
        texts == usb_texts(store, items, total, payment)
        n     == Len(texts)
        open  == Ev("Usb", failAt # 1, <<>>, <<vendor, product>>, "")
        \* the k-th text command is device operation k + 1
        sent  == IF failAt \in 2..(n + 1) THEN failAt - 1 ELSE n
        cmds  == [k \in 1..sent |-> Ev("text", failAt # k + 1, texts[k], <<>>, "")]
        cut   == Ev("cut", failAt # n + 2, <<>>, <<>>, "")
    IN  IF ~ESC_POS_AVAILABLE
        THEN [result |-> "RuntimeError", events |-> enter]
        ELSE IF ~open.ok
             THEN [result |-> "DeviceError", events |-> enter \o <<open>>]
        ELSE IF failAt \in 2..(n + 1)
             THEN [result |-> "DeviceError", events |-> enter \o <<open>> \o cmds]
        ELSE IF ~cut.ok
             THEN [result |-> "DeviceError",
                   events |-> enter \o <<open>> \o cmds \o <<cut>>]
        ELSE [result |-> "True",
              events |-> enter \o <<open>> \o cmds \o <<cut>>
                         \o (IF gc THEN <<Ev("finalizer_close", TRUE, <<>>, <<>>, "")>>
                             ELSE <<>>)]

(***************************************************************************)
(* ThermalPrinter.print_receipt                                            *)
(***************************************************************************)
DefaultPort == <<"9", "1", "0", "0">>

\* The USB branch chosen without asking whether the backend was imported.
usb_selected_unchecked(mode, vendor, product) ==
    mode = "escpos_usb" /\ vendor # <<>> /\ product # <<>>

\* elif mode == 'escpos_usb' and ESC_POS_AVAILABLE and vendor and product
usb_selected(mode, vendor, product) ==
    mode = "escpos_usb" /\ ESC_POS_AVAILABLE /\ vendor # <<>> /\ product # <<>>

NoCall ==
    [result |-> "none", events |-> <<>>, lines |-> <<>>, text |-> <<>>,
     store |-> [name |-> <<>>, address |-> <<>>, phone |-> <<>>],
     items |-> <<>>, total |-> <<>>, payment |-> <<>>]

\* print_receipt falling back to the network when the USB transport fails.
print_receipt_failover(store, items, total, payment, failAt, gc) ==
    LET mode    == get_setting("printer_mode", "network")
        ip      == get_setting("printer_ip", "192.168.0.100")
        port    == ParseInt(get_setting("printer_port", DefaultPort))
        vendor  == get_setting("printer_usb_vendor", <<>>)
        product == get_setting("printer_usb_product", <<>>)
        args    == [store |-> store, items |-> items, total |-> total,
                    payment |-> payment]
        lines   == build_lines(store, items, total, payment)
        text    == build_text(store, items, total, payment)
        built   == [lines |-> lines, text |-> text]
        raised  == [result |-> "ValueError", events |-> <<>>]
        net     == print_network(ip, port.val, text, 0)
        v       == ParseHex(vendor)
        p       == ParseHex(product)
        usb     == print_escpos_usb(v.val, p.val, store, items, total, payment,
                                    failAt, gc)
        again   == [result |-> net.result, events |-> usb.events \o net.events]
    IN  IF ~port.ok
        THEN args @@ raised @@ [lines |-> <<>>, text |-> <<>>]
        ELSE IF mode = "network"
             THEN args @@ built @@ print_network(ip, port.val, text, failAt)
        ELSE IF usb_selected(mode, vendor, product)
             THEN IF v.ok /\ p.ok
                  THEN args @@ built @@ (IF usb.result = "True" THEN usb ELSE again)
                  ELSE args @@ built @@ raised
        ELSE args @@ built @@ print_network(ip, port.val, text, failAt)

print_receipt(store, items, total, payment, failAt, gc) ==
    LET mode    == get_setting("printer_mode", "network")
        ip      == get_setting("printer_ip", "192.168.0.100")
        port    == ParseInt(get_setting("printer_port", DefaultPort))
        vendor  == get_setting("printer_usb_vendor", <<>>)
        product == get_setting("printer_usb_product", <<>>)
        args    == [store |-> store, items |-> items, total |-> total,
                    payment |-> payment]
        lines   == build_lines(store, items, total, payment)
        text    == build_text(store, items, total, payment)
        built   == [lines |-> lines, text |-> text]
        raised  == [result |-> "ValueError", events |-> <<>>]
        net     == print_network(ip, port.val, text, failAt)
        v       == ParseHex(vendor)
        p       == ParseHex(product)
        usb     == print_escpos_usb(v.val, p.val, store, items, total, payment,
                                    failAt, gc)
    IN  IF ~port.ok
        THEN args @@ raised @@ [lines |-> <<>>, text |-> <<>>]
        ELSE IF mode = "network" THEN args @@ built @@ net
        ELSE IF usb_selected(mode, vendor, product)
             THEN IF v.ok /\ p.ok THEN args @@ built @@ usb
                  ELSE args @@ built @@ raised
        ELSE args @@ built @@ net

(***************************************************************************)
(* Input values.                                                           *)
(***************************************************************************)
BurguerClassico == <<"B", "u", "r", "g", "u", "e", "r", " ", "C", "l", "a", "s", "s", "i", "c", "o">>
BatataFrita == <<"B", "a", "t", "a", "t", "a", " ", "F", "r", "i", "t", "a">>
RefrigeranteLata == <<"R", "e", "f", "r", "i", "g", "e", "r", "a", "n", "t", "e", " ", "L", "a", "t", "a">>
Dinheiro == <<"D", "i", "n", "h", "e", "i", "r", "o">>
Cartao == <<"C", "a", "r", "t", "ã", "o">>
BurgerHouse == <<"B", "u", "r", "g", "e", "r", " ", "H", "o", "u", "s", "e">>
RuaExemplo == <<"R", "u", "a", " ", "E", "x", "e", "m", "p", "l", "o", ",", " ", "1", "2", "3">>
Telefone == <<"(", "1", "1", ")", " ", "9", "9", "9", "9", "9", "-", "9", "9", "9", "9">>
MinhaLoja == <<"M", "i", "n", "h", "a", " ", "L", "o", "j", "a">>

\* Database._init_db: the seeded catalogue, prices in cents.  Product
\* maintenance is not modelled, so the catalogue stays as seeded.
products ==
    <<[code |-> <<"0", "0", "1">>, name |-> BurguerClassico, price |-> <<1, 2, 5, 0>>],
      [code |-> <<"0", "0", "2">>, name |-> BatataFrita, price |-> <<8, 0, 0>>],
      [code |-> <<"0", "0", "3">>, name |-> RefrigeranteLata, price |-> <<5, 0, 0>>]>>

\* The payment combobox keeps its initial value; choosing another one is not
\* modelled.
payment_var == Dinheiro

\* (product id, quantity) selections offered to _add_to_cart.
Selections == {<<1, 2>>, <<3, 1>>}

\* Printer faults met while finalizing a sale: none, or the third device
\* operation fails (the connect, or the second text command).
SaleFaults == {0, 3}

Item(q, n, p) == [q |-> q, n |-> n, p |-> p]

\* Arguments offered to print_receipt when it is driven directly.
Stores ==
    {[name |-> BurgerHouse, address |-> <<>>, phone |-> <<>>],
     [name |-> BurgerHouse, address |-> RuaExemplo, phone |-> Telefone],
     [name |-> Rep("B", 33), address |-> <<>>, phone |-> <<>>]}

ItemLists ==
    {<<Item(2, BurguerClassico, <<2, 5, 0, 0>>), Item(1, RefrigeranteLata, <<5, 0, 0>>)>>,
     <<Item(1, Rep("a", 25), <<5, 0, 0>>), Item(1, Rep("a", 26), <<5, 0, 0>>)>>,
     <<Item(12, Rep("b", 40), <<1, 2, 0, 0, 0, 0>>),
       Item(1, RefrigeranteLata, <<1>> \o Rep(0, 29))>>,
     <<Item(1, RefrigeranteLata, <<1>> \o Rep(0, 30)),
       Item(3, <<>>, <<1>> \o Rep(0, 33))>>}

Totals == {<<3, 0, 0, 0>>}

Payments == {Dinheiro, Cartao}

Modes == {"network", "escpos_usb"}
Ports == {<<"9", "1", "0", "0">>, <<"a", "b", "c">>, <<"7", "0", "0", "0", "0">>}
Vendors == {<<>>, <<"0", "x", "0", "4", "b", "8">>, <<"z", "z">>}
ProductIds == {<<>>, <<"0", "2", "0", "2">>}

\* What _save_config leaves in the settings table: all eight keys.
Saved(mode, port, vendor, product) ==
    [printer_mode |-> mode, printer_ip |-> "10.0.0.9", printer_port |-> port,
     printer_usb_vendor |-> vendor, printer_usb_product |-> product,
     store_name |-> BurgerHouse, store_address |-> RuaExemplo,
     store_phone |-> <<>>]

\* The settings table of a database that was never configured.
Fresh == [k \in {} |-> <<>>]

(***************************************************************************)
(* Database.save_sale and the cart handlers of PDVApp.                     *)
(***************************************************************************)
\* f"{q}x {n} - {p:.2f}"
item_text(it) ==
    IntStr(it.q) \o <<"x", " ">> \o it.n \o <<" ", "-", " ">> \o Format2(it.p)

\* The row save_sale inserts (the timestamp is left out).
save_sale(items, total, payment) ==
    [total |-> total, payment |-> payment,
     items |-> Join([i \in 1..Len(items) |-> item_text(items[i])])]

\* list.pop(idx) / Listbox.delete(idx), idx counted from 0.
RemoveAt(s, idx) == SubSeq(s, 1, idx) \o SubSeq(s, idx + 2, Len(s))

update_total(c) == Format2(SumTotals(c))

add_to_cart(pid, qty) ==
    /\ Len(cart) < MaxCart
    /\ pid \in DOMAIN products
    /\ LET name        == products[pid].name
           total_price == Mul(qty, products[pid].price)
           line        == Item(qty, name, total_price)
       IN  /\ cart' = Append(cart, line)
           /\ lb_cart' = Append(lb_cart, item_text(line))
           /\ total_var' = update_total(Append(cart, line))
    /\ UNCHANGED <<settings, ESC_POS_AVAILABLE, sales, finalized, call>>

\* _remove_cart_item dropping the last cart line whatever the selection.
remove_cart_item_pop_last(idx) ==
    /\ idx \in 0..(Len(lb_cart) - 1)
    /\ lb_cart' = RemoveAt(lb_cart, idx)
    /\ cart' = RemoveAt(cart, Len(cart) - 1)
    /\ total_var' = update_total(RemoveAt(cart, Len(cart) - 1))
    /\ UNCHANGED <<settings, ESC_POS_AVAILABLE, sales, finalized, call>>

remove_cart_item(idx) ==
    /\ idx \in 0..(Len(lb_cart) - 1)
    /\ lb_cart' = RemoveAt(lb_cart, idx)
    /\ cart' = RemoveAt(cart, idx)
    /\ total_var' = update_total(RemoveAt(cart, idx))
    /\ UNCHANGED <<settings, ESC_POS_AVAILABLE, sales, finalized, call>>

\* _finalize without the early return on an empty cart: an empty sale is
\* saved and printed.
finalize_empty_no_return ==
    /\ cart = <<>>
    /\ Len(sales) < MaxSales
    /\ \E failAt \in SaleFaults, gc \in BOOLEAN :
          LET store == [name    |-> get_setting("store_name", MinhaLoja),
                        address |-> get_setting("store_address", <<>>),
                        phone   |-> get_setting("store_phone", <<>>)]
          IN  /\ sales' = Append(sales, save_sale(cart, SumTotals(cart), payment_var))
              /\ call' = print_receipt(store, cart, SumTotals(cart), payment_var,
                                       failAt, gc)
    /\ total_var' = update_total(<<>>)
    /\ UNCHANGED <<settings, ESC_POS_AVAILABLE, cart, lb_cart, finalized>>

\* _finalize on an empty cart: the notice, and nothing else.
finalize_empty ==
    /\ cart = <<>>
    /\ UNCHANGED vars

\* _finalize saving the sale only once the receipt went out.
finalize_save_after_print(failAt, gc) ==
    /\ cart # <<>>
    /\ Len(sales) < MaxSales
    /\ LET payment == payment_var
           total   == SumTotals(cart)
           store   == [name    |-> get_setting("store_name", MinhaLoja),
                       address |-> get_setting("store_address", <<>>),
                       phone   |-> get_setting("store_phone", <<>>)]
           printed == print_receipt(store, cart, total, payment, failAt, gc)
       IN  /\ call' = printed
           /\ sales' = IF printed.result = "True"
                       THEN Append(sales, save_sale(cart, total, payment))
                       ELSE sales
    /\ finalized' = finalized + 1
    /\ cart' = <<>>
    /\ lb_cart' = <<>>
    /\ total_var' = update_total(<<>>)
    /\ UNCHANGED <<settings, ESC_POS_AVAILABLE>>

\* _finalize on a cart with lines: save, print (any exception of the print is
\* caught and shown), clear.
finalize(failAt, gc) ==
    /\ cart # <<>>
    /\ Len(sales) < MaxSales
    /\ LET payment == payment_var
           total   == SumTotals(cart)
           store   == [name    |-> get_setting("store_name", MinhaLoja),
                       address |-> get_setting("store_address", <<>>),
                       phone   |-> get_setting("store_phone", <<>>)]
       IN  /\ sales' = Append(sales, save_sale(cart, total, payment))
           /\ call' = print_receipt(store, cart, total, payment, failAt, gc)
    /\ finalized' = finalized + 1
    /\ cart' = <<>>
    /\ lb_cart' = <<>>
    /\ total_var' = update_total(<<>>)
    /\ UNCHANGED <<settings, ESC_POS_AVAILABLE>>

\* print_receipt called on its own, once, with arguments of the caller's
\* choosing (the printer keeps no state from one call to the next).
print_receipt_call(store, items, total, payment, failAt, gc) ==
    /\ call = NoCall
    /\ call' = print_receipt(store, items, total, payment, failAt, gc)
    /\ UNCHANGED <<settings, ESC_POS_AVAILABLE, cart, lb_cart, total_var,
                   sales, finalized>>

(***************************************************************************)
(* Specifications.                                                         *)
(***************************************************************************)
InitApp ==
    /\ cart = <<>>
    /\ lb_cart = <<>>
    /\ total_var = <<"0", ".", "0", "0">>
    /\ sales = <<>>
    /\ finalized = 0
    /\ call = NoCall

\* The application after construction; the settings are those an earlier run
\* left in the database, if any.
Init ==
    /\ InitApp
    /\ ESC_POS_AVAILABLE \in BOOLEAN
    /\ settings \in {Fresh} \cup
         {Saved(m, po, <<"0", "x", "0", "4", "b", "8">>, <<"0", "2", "0", "2">>) :
            m \in Modes, po \in {<<"9", "1", "0", "0">>, <<"a", "b", "c">>}}

AddToCart == \E sel \in Selections : add_to_cart(sel[1], sel[2])
RemoveCartItem == \E idx \in 0..(MaxCart - 1) : remove_cart_item(idx)
FinalizeEmpty == finalize_empty
Finalize == \E failAt \in SaleFaults, gc \in BOOLEAN : finalize(failAt, gc)

Next == AddToCart \/ RemoveCartItem \/ FinalizeEmpty \/ Finalize

Spec == Init /\ [][Next]_vars

\* The dispatcher on its own, over every stored configuration.
InitPrint ==
    /\ InitApp
    /\ ESC_POS_AVAILABLE \in BOOLEAN
    /\ settings \in {Fresh} \cup
         {Saved(m, po, v, p) :
            m \in Modes, po \in Ports, v \in Vendors, p \in ProductIds}

PrintReceiptCall ==
    \E store \in Stores, items \in ItemLists, total \in Totals,
       payment \in Payments, failAt \in 0..MaxFailAt, gc \in BOOLEAN :
        print_receipt_call(store, items, total, payment, failAt, gc)

NextPrint == PrintReceiptCall

SpecPrint == InitPrint /\ [][NextPrint]_vars

(***************************************************************************)
(* Vocabulary of the properties.                                           *)
(***************************************************************************)
Called == call.result # "none"

Positions(op) == {i \in 1..Len(call.events) : call.events[i].op = op}
Failed == {i \in 1..Len(call.events) : ~call.events[i].ok}

UsedNetwork == Positions("_print_network") # {}
UsedUsb == Positions("_print_escpos_usb") # {}

CfgMode == get_setting("printer_mode", "network")
CfgIp == get_setting("printer_ip", "192.168.0.100")
CfgPort == get_setting("printer_port", DefaultPort)
CfgVendor == get_setting("printer_usb_vendor", <<>>)
CfgProduct == get_setting("printer_usb_product", <<>>)

\* The condition the documentation gives for the USB transport.
UsbConfigured ==
    CfgMode = "escpos_usb" /\ ESC_POS_AVAILABLE /\ CfgVendor # <<>> /\ CfgProduct # <<>>

PortParses == ParseInt(CfgPort).ok
IdsParse == ParseHex(CfgVendor).ok /\ ParseHex(CfgProduct).ok

\* Sockets opened and not yet closed when the call ended.
OpenSockets ==
    Cardinality({i \in Positions("socket") : call.events[i].ok})
    - Cardinality(Positions("close"))

\* Devices opened and not released when the call ended.
OpenDevices ==
    Cardinality({i \in Positions("Usb") : call.events[i].ok})
    - Cardinality(Positions("close_device") \cup Positions("finalizer_close"))

(***************************************************************************)
(* C1                                                                      *)
(***************************************************************************)
\* C1 as stated: the USB transport is used exactly when the mode is
\* escpos_usb, the backend is available and vendor and product are non-empty;
\* in every other case the network transport is used; never both.
C1_Stated ==
    Called =>
        /\ UsedUsb <=> UsbConfigured
        /\ UsedNetwork <=> ~UsbConfigured
        /\ ~(UsedUsb /\ UsedNetwork)

\* C1 (amended): with a printer_port that parses as an integer, the USB
\* transport is used exactly when the mode is escpos_usb, the backend is
\* available, vendor and product are non-empty and both parse as hexadecimal;
\* the network transport, against printer_ip and the parsed port, is used
\* exactly when the USB condition of the claim does not hold; with a port that
\* does not parse (or USB identifiers that do not) no transport is invoked at
\* all; both transports are never invoked in one call.
C1_Dispatch ==
    Called =>
        /\ UsedUsb <=> (PortParses /\ UsbConfigured /\ IdsParse)
        /\ UsedNetwork <=> (PortParses /\ ~UsbConfigured)
        /\ ~(UsedUsb /\ UsedNetwork)
        /\ \A i \in Positions("_print_network") :
              /\ call.events[i].host = CfgIp
              /\ call.events[i].nums = <<ParseInt(CfgPort).val>>
        /\ (~PortParses \/ (UsbConfigured /\ ~IdsParse)) =>
              (call.events = <<>> /\ call.result = "ValueError")

\* The fallback of C1: mode escpos_usb without the backend goes to the network.
C1_Witness ==
    /\ Called
    /\ CfgMode = "escpos_usb" /\ ~ESC_POS_AVAILABLE
    /\ CfgVendor # <<>> /\ CfgProduct # <<>>
    /\ UsedNetwork /\ ~UsedUsb

(***************************************************************************)
(* C2                                                                      *)
(***************************************************************************)
\* C2: every finalization of a cart with lines appends exactly one record to
\* the sales (the cart's lines, their sum, the payment) whatever the print
\* did, and no step takes a saved record away.
C2_SalePersisted ==
    [][/\ finalized' # finalized =>
            /\ cart # <<>>
            /\ Len(sales') = Len(sales) + 1
            /\ SubSeq(sales', 1, Len(sales)) = sales
            /\ sales'[Len(sales')].total = SumTotals(cart)
            /\ sales'[Len(sales')].payment = payment_var
            /\ sales'[Len(sales')].items =
                 Join([i \in 1..Len(cart) |-> item_text(cart[i])])
       /\ finalized' = finalized => sales' = sales]_vars

\* A sale saved although the print failed on the configuration.
C2_Witness ==
    /\ finalized = 1
    /\ Len(sales) = 1
    /\ call.result = "ValueError"
    /\ call.events = <<>>

(***************************************************************************)
(* C3                                                                      *)
(***************************************************************************)
\* C3: when _print_network has returned or raised, every socket it opened
\* has been closed, and nothing was done on the socket after the close.
C3_SocketClosed ==
    Called =>
        /\ OpenSockets = 0
        /\ \A i \in Positions("close") :
              /\ i = Len(call.events)
              /\ \E j \in Positions("socket") : j < i /\ call.events[j].ok

\* A send that failed on a connected socket, which was closed all the same.
C3_Witness ==
    /\ call.result = "OSError"
    /\ \E i \in Positions("sendall") : ~call.events[i].ok
    /\ OpenSockets = 0
    /\ Positions("close") # {}

(***************************************************************************)
(* C4                                                                      *)
(***************************************************************************)
\* C4: with a printer_port that is not a number, print_receipt fails with
\* ConfigError{InvalidPort} before any socket is opened or any device
\* operation is attempted, in every printer mode.
C4_InvalidPort ==
    (Called /\ ~PortParses) =>
        /\ call.result = "ConfigError{InvalidPort}"
        /\ call.events = <<>>

(***************************************************************************)
(* C5                                                                      *)
(***************************************************************************)
\* C5: every row of the rendered receipt has exactly 32 characters, except
\* the payment line, the thank-you line and the trailing blank line.
C5_RowWidth ==
    LET n == Len(call.lines)
    IN  \A i \in 1..n :
            i \notin {n - 3, n - 1, n} => Len(call.lines[i]) = 32

(***************************************************************************)
(* C6                                                                      *)
(***************************************************************************)
HeaderCount ==
    1 + (IF call.store.address # <<>> THEN 1 ELSE 0)
      + (IF call.store.phone # <<>> THEN 1 ELSE 0)

\* The rendered row of the i-th cart line, and the two parts it is made from.
ItemRow(i) == call.lines[HeaderCount + 1 + i]
FullLeft(i) == IntStr(call.items[i].q) \o <<"x", " ">> \o call.items[i].n
Amount(i) == Format2(call.items[i].p)

EndsWith(row, tail) ==
    Len(row) >= Len(tail) /\ SubSeq(row, Len(row) - Len(tail) + 1, Len(row)) = tail

\* What C6 says of one row.
RowAsStated(i) ==
    /\ Len(ItemRow(i)) = 32
    /\ EndsWith(ItemRow(i), Amount(i))
    /\ SubSeq(ItemRow(i), 1, 32 - Len(Amount(i))) =
         IF Len(FullLeft(i)) + Len(Amount(i)) > 32
         THEN SubSeq(FullLeft(i), 1, 32 - Len(Amount(i)) - 1) \o <<" ">>
         ELSE FullLeft(i) \o Rep(" ", 32 - Len(FullLeft(i)) - Len(Amount(i)))

\* C6 as stated: a cart line that does not fit is cut to 32 - len(amount) - 1
\* characters and its row is 32 wide and ends with the amount; a line that
\* fits is kept whole and padded so that the amount ends at column 32.
C6_Stated ==
    call.lines # <<>> => \A i \in 1..Len(call.items) : RowAsStated(i)

\* C6 (amended): the above holds for every cart line whose formatted amount
\* has at most 31 characters; for a longer amount the row is wider than 32
\* columns: it is the left part without its last len(amount) - 31 characters
\* (nothing, if it is shorter than that) followed directly by the unmodified
\* amount.
C6_ItemRow ==
    call.lines # <<>> =>
        \A i \in 1..Len(call.items) :
            IF Len(Amount(i)) <= 31 THEN RowAsStated(i)
            ELSE LET keep == Max(Len(FullLeft(i)) - (Len(Amount(i)) - 31), 0)
                 IN  /\ ItemRow(i) = SubSeq(FullLeft(i), 1, keep) \o Amount(i)
                     /\ Len(ItemRow(i)) > 32

\* A cart line that was cut to make room for its amount.
C6_Witness ==
    /\ call.lines # <<>>
    /\ \E i \in 1..Len(call.items) :
          /\ Len(FullLeft(i)) + Len(Amount(i)) > 32
          /\ Len(Amount(i)) <= 31
          /\ Len(ItemRow(i)) = 32
          /\ ItemRow(i)[32 - Len(Amount(i))] = " "

(***************************************************************************)
(* C7                                                                      *)
(***************************************************************************)
\* C7: a call enters at most one transport and performs each of its device
\* operations at most once; once an operation has failed nothing follows but
\* the closing of the socket, and the call does not report success.
C7_SingleAttempt ==
    Called =>
        /\ Cardinality(Positions("_print_network")
                       \cup Positions("_print_escpos_usb")) <= 1
        /\ \A op \in {"socket", "connect", "sendall", "Usb", "cut"} :
              Cardinality(Positions(op)) <= 1
        /\ Cardinality(Failed) <= 1
        /\ \A i \in Failed :
              /\ call.result \notin {"True", "none"}
              /\ \A j \in (i + 1)..Len(call.events) : call.events[j].op = "close"
        /\ call.result = "True" => Failed = {}

\* A text command that failed on the USB device: the failure is the result,
\* and the network was not tried.
C7_Witness ==
    /\ call.result = "DeviceError"
    /\ \E i \in Positions("text") : ~call.events[i].ok
    /\ ~UsedNetwork

(***************************************************************************)
(* C8                                                                      *)
(***************************************************************************)
\* C8: when _print_escpos_usb has returned or raised, the device it opened
\* has been released.
C8_DeviceReleased == Called => OpenDevices = 0

(***************************************************************************)
(* C9                                                                      *)
(***************************************************************************)
IsCommand(e) == e.op \in {"text", "cut"}
UsbCommands == SelectSeq(call.events, IsCommand)

\* The k-th command of the documented sequence for the sale of the call.
ExpectedText(k) ==
    LET n == Len(call.items)
    IN  IF k = 1 THEN call.store.name \o <<"\n">>
        ELSE IF k = 2 \/ k = n + 3 THEN Rep("-", 32) \o <<"\n">>
        ELSE IF k \in 3..(n + 2) THEN item_text(call.items[k - 2]) \o <<"\n">>
        ELSE IF k = n + 4
             THEN <<"T", "O", "T", "A", "L", ":", " ">> \o Format2(call.total)
                  \o <<"\n">>
        ELSE IF k = n + 5
             THEN <<"P", "a", "g", "a", "m", "e", "n", "t", "o", ":", " ">>
                  \o call.payment \o <<"\n">>
        ELSE <<>>

\* C9: the commands sent to the USB device are, in order, the store name, a
\* separator, one line per cart line in cart order, a separator, the TOTAL
\* line, the Pagamento line and then one cut; a call that fails stops within
\* this sequence, a call that succeeds has sent all of it, and the cut is the
\* last command.
C9_UsbCommandOrder ==
    LET n == Len(call.items)
    IN  UsedUsb =>
            /\ Len(UsbCommands) <= n + 6
            /\ \A k \in 1..Len(UsbCommands) :
                  /\ UsbCommands[k].op = (IF k = n + 6 THEN "cut" ELSE "text")
                  /\ UsbCommands[k].txt = ExpectedText(k)
                  /\ k < Len(UsbCommands) => UsbCommands[k].ok
            /\ call.result = "True" =>
                  (Len(UsbCommands) = n + 6 /\ UsbCommands[n + 6].ok)

\* A sale of two different lines printed in full on the USB device.
C9_Witness ==
    /\ UsedUsb
    /\ call.result = "True"
    /\ Len(call.items) = 2
    /\ call.items[1] # call.items[2]
    /\ UsbCommands[Len(UsbCommands)].op = "cut"

(***************************************************************************)
(* C10                                                                     *)
(***************************************************************************)
\* C10: the displayed total is the formatted sum of the line totals of the
\* cart, and the list shown has one entry per cart line, in the cart's order.
C10_CartConsistent ==
    /\ total_var = Format2(SumTotals(cart))
    /\ Len(lb_cart) = Len(cart)
    /\ \A i \in 1..Len(cart) : lb_cart[i] = item_text(cart[i])

\* A cart of two different lines built after a sale was finalized.
C10_Witness ==
    /\ finalized = 1
    /\ Len(cart) = 2
    /\ cart[1].n # cart[2].n
    /\ total_var = <<"3", "0", ".", "0", "0">>

(***************************************************************************)
(* C11                                                                     *)
(***************************************************************************)
\* C11: from a state with an empty cart no step saves a sale record or makes
\* a print attempt (finalize there changes nothing at all); a finalization of
\* a cart with lines leaves the cart and the list shown empty and the
\* displayed total at 0.00, whatever the print did.
C11_Finalize ==
    [][/\ cart = <<>> =>
            /\ sales' = sales
            /\ call' = call
            /\ finalized' = finalized
       /\ finalized' # finalized =>
            /\ cart # <<>>
            /\ cart' = <<>>
            /\ lb_cart' = <<>>
            /\ total_var' = <<"0", ".", "0", "0">>]_vars

\* A sale whose print failed in the transport: the cart is empty all the same.
C11_Witness ==
    /\ finalized = 1
    /\ call.result \in {"OSError", "DeviceError"}
    /\ Failed # {}
    /\ cart = <<>>
    /\ lb_cart = <<>>
    /\ total_var = <<"0", ".", "0", "0">>

====
